---- MODULE Spec2Model ----
(***************************************************************************)
(* The lazy k-permutation adaptor of src/src/permutations.rs:              *)
(* `Permutations { vals: LazyBuffer<I>, state: PermutationState }` with    *)
(* its constructor `permutations`, `next`, `count`, `size_hint`, the free  *)
(* function `advance` and `CompleteState::{advance, remaining}`.           *)
(*                                                                         *)
(* Source elements are identified by their position (0-based); a returned  *)
(* permutation is recorded as the sequence of positions that `next` reads  *)
(* from `vals`.  Rust vectors are TLA+ sequences, so the Rust index i is   *)
(* the TLA+ index i + 1.                                                   *)
(***************************************************************************)
EXTENDS Integers, Sequences, FiniteSets, TLC

\* ---------------------------------------------------------------- bounds
\* Longest finite source that is explored.
MaxN == 4
\* Largest k handed to permutations().
MaxK == MaxN + 1
\* Number of bits of usize in the explored build.
Width == 4
\* Calls of next() that are explored after the first None.
MaxAfter == 3

\* Length marker of a source that never ends.
Infinite == 0 - 1

UsizeMax == 2^Width - 1

\* ------------------------------------------------------------- Option<T>
None == [some |-> FALSE, val |-> 0]
Some(x) == [some |-> TRUE, val |-> x]
NoneVec == [some |-> FALSE, val |-> <<>>]

\* usize::checked_mul / usize::checked_add
checked_mul(a, b) == IF a * b > UsizeMax THEN None ELSE Some(a * b)
checked_add(a, b) == IF a + b > UsizeMax THEN None ELSE Some(a + b)
\* usize::saturating_sub / usize::saturating_add
saturating_sub(a, b) == IF a < b THEN 0 ELSE a - b
saturating_add(a, b) == IF a + b > UsizeMax THEN UsizeMax ELSE a + b

\* ------------------------------------------------------ PermutationState
StateStart(k) == [tag |-> "Start", k |-> k]
StateBuffered(k, min_n) == [tag |-> "Buffered", k |-> k, min_n |-> min_n]
StateLoaded(cs) == [tag |-> "Loaded", cs |-> cs]
StateEnd == [tag |-> "End"]

\* --------------------------------------------------------- CompleteState
CompleteStart(n, k) == [tag |-> "Start", n |-> n, k |-> k]
CompleteOngoing(indices, cycles) ==
    [tag |-> "Ongoing", indices |-> indices, cycles |-> cycles]

\* (a..b) collected into a vector
Range(a, b) == [j \in 1..(b - a) |-> a + j - 1]
\* Variant of RevRange: the .rev() is left out.
RevRange_forward(a, b) == [j \in 1..(b - a) |-> a + j - 1]

\* (a..b).rev() collected into a vector
RevRange(a, b) == [j \in 1..(b - a) |-> b - j]

\* indices.swap(a, b), with Rust indices a and b
swap(s, a, b) ==
    [j \in 1..Len(s) |-> IF j = a + 1 THEN s[b + 1]
                         ELSE IF j = b + 1 THEN s[a + 1] ELSE s[j]]

\* Variant of rotate_left: the sub-slice is left as it is.
rotate_left_skipped(s, i) == s

\* indices[i..].rotate_left(1)
rotate_left(s, i) ==
    [j \in 1..Len(s) |-> IF j <= i THEN s[j]
                         ELSE IF j = Len(s) THEN s[i + 1] ELSE s[j + 1]]

\* Variant of swap_index: the swap partner taken one position too low.
swap_index_low(n, c) == n - c - 1

\* let swap_index = n - cycles[i]
swap_index(n, c) == n - c

\* The loop `for i in (0..k).rev()` of advance, entered at Rust index i
\* (i = -1: the loop has run off its end and advance returns true).
RECURSIVE advance_loop(_, _, _)
advance_loop(indices, cycles, i) ==
    LET n == Len(indices) IN
    IF i < 0
    THEN [indices |-> indices, cycles |-> cycles, wrapped |-> TRUE]
    ELSE IF cycles[i + 1] = 0
    THEN advance_loop(rotate_left(indices, i),
                      [cycles EXCEPT ![i + 1] = n - i - 1], i - 1)
    ELSE [indices |-> swap(indices, i, swap_index(n, cycles[i + 1])),
          cycles |-> [cycles EXCEPT ![i + 1] = cycles[i + 1] - 1],
          wrapped |-> FALSE]

\* fn advance(indices, cycles) -> bool
advance(indices, cycles) == advance_loop(indices, cycles, Len(cycles) - 1)

\* CompleteState::advance
CompleteState_advance(cs) ==
    IF cs.tag = "Start"
    THEN CompleteOngoing(Range(0, cs.n), RevRange(cs.n - cs.k, cs.n))
    ELSE LET r == advance(cs.indices, cs.cycles) IN
         IF r.wrapped
         THEN CompleteStart(Len(r.indices), Len(r.cycles))
         ELSE CompleteOngoing(r.indices, r.cycles)

\* The try_fold of remaining's Start arm over the factors lo..=n.
RECURSIVE falling_fold(_, _, _)
falling_fold(acc, i, n) ==
    IF i > n THEN Some(acc)
    ELSE LET m == checked_mul(acc, i) IN
         IF m.some THEN falling_fold(m.val, i + 1, n) ELSE None

\* Variant of cycles_fold: wrapping instead of checked arithmetic.
RECURSIVE cycles_fold_wrapping(_, _, _, _)
cycles_fold_wrapping(acc, i, n, cycles) ==
    IF i >= Len(cycles) THEN Some(acc)
    ELSE cycles_fold_wrapping((acc * (n - i) + cycles[i + 1]) % (UsizeMax + 1),
                              i + 1, n, cycles)

\* The try_fold of remaining's Ongoing arm, at Rust index i of cycles.
RECURSIVE cycles_fold(_, _, _, _)
cycles_fold(acc, i, n, cycles) ==
    IF i >= Len(cycles) THEN Some(acc)
    ELSE LET m == checked_mul(acc, n - i) IN
         IF ~m.some THEN None
         ELSE LET a == checked_add(m.val, cycles[i + 1]) IN
              IF a.some THEN cycles_fold(a.val, i + 1, n, cycles) ELSE None

\* CompleteState::remaining
remaining(cs) ==
    IF cs.tag = "Start"
    THEN IF cs.n < cs.k THEN Some(0)
         ELSE falling_fold(1, cs.n - cs.k + 1, cs.n)
    ELSE cycles_fold(0, 0, Len(cs.indices), cs.cycles)


\* ------------------------------------------------- LazyBuffer (adapter)
\* `vals` is [len, done]: the number of cached elements and whether the
\* source has reported that it has no more.  The source iterator stands
\* at position vals.len of a source of n elements (n = Infinite: endless).
SrcHas(n, pos) == n = Infinite \/ pos < n

\* LazyBuffer::new
LazyBuffer_new == [len |-> 0, done |-> FALSE]

\* Elements that prefill(len) obtains from the source.
PrefillTaken(v, len, n) ==
    IF v.done \/ len <= v.len THEN 0
    ELSE IF SrcHas(n, len - 1) THEN len - v.len ELSE n - v.len

\* Requests that prefill(len) makes to the source: take(delta) stops at the
\* first absent element.
PrefillAsked(v, len, n) ==
    IF v.done \/ len <= v.len THEN 0
    ELSE IF SrcHas(n, len - 1) THEN len - v.len ELSE n - v.len + 1

\* LazyBuffer::prefill
LazyBuffer_prefill(v, len, n) ==
    IF v.done \/ len <= v.len THEN v
    ELSE [len |-> v.len + PrefillTaken(v, len, n),
          done |-> v.len + PrefillTaken(v, len, n) < len]

\* LazyBuffer::get_next: [vals, got, asked]
LazyBuffer_get_next(v, n) ==
    IF v.done THEN [vals |-> v, got |-> FALSE, asked |-> 0]
    ELSE IF SrcHas(n, v.len)
    THEN [vals |-> [v EXCEPT !.len = v.len + 1], got |-> TRUE, asked |-> 1]
    ELSE [vals |-> [v EXCEPT !.done = TRUE], got |-> FALSE, asked |-> 1]

\* LazyBuffer::count, for a source that ends
LazyBuffer_count(v, n) == IF v.done THEN v.len ELSE n

\* size_hint::add_scalar
add_scalar(sh, x) ==
    [low |-> saturating_add(sh.low, x),
     upp |-> IF sh.upp.some THEN checked_add(sh.upp.val, x) ELSE None]

\* size_hint::sub_scalar
sub_scalar(sh, x) ==
    [low |-> saturating_sub(sh.low, x),
     upp |-> IF sh.upp.some THEN Some(saturating_sub(sh.upp.val, x)) ELSE None]

\* LazyBuffer::size_hint, from the size hint `it` of the source iterator
LazyBuffer_size_hint(v, it) == add_scalar(it, v.len)

\* ---------------------------------------------------------- permutations
\* Variant of permutations: no special case for k == 0.
permutations_no_zero_case(n, k) ==
    LET vals == LazyBuffer_prefill(LazyBuffer_new, k, n) IN
    [vals |-> vals,
     state |-> IF vals.len = k THEN StateStart(k) ELSE StateEnd,
     asked |-> PrefillAsked(LazyBuffer_new, k, n)]

\* Variant of permutations: enough_vals tested as vals.len() <= k.
permutations_short_accepted(n, k) ==
    IF k = 0
    THEN [vals |-> LazyBuffer_new,
          state |-> StateLoaded(CompleteStart(0, 0)),
          asked |-> 0]
    ELSE LET vals == LazyBuffer_prefill(LazyBuffer_new, k, n) IN
         [vals |-> vals,
          state |-> IF vals.len <= k THEN StateStart(k) ELSE StateEnd,
          asked |-> PrefillAsked(LazyBuffer_new, k, n)]

\* pub fn permutations(iter, k): [vals, state, asked]
permutations(n, k) ==
    IF k = 0
    THEN [vals |-> LazyBuffer_new,
          state |-> StateLoaded(CompleteStart(0, 0)),
          asked |-> 0]
    ELSE LET vals == LazyBuffer_prefill(LazyBuffer_new, k, n) IN
         [vals |-> vals,
          state |-> IF vals.len = k THEN StateStart(k) ELSE StateEnd,
          asked |-> PrefillAsked(LazyBuffer_new, k, n)]

\* Variant of prev_iteration_count: one emission too many is counted.
prev_iteration_count_long(n, k) == n - k + 2

\* Variant of prev_iteration_count: the first emission is not counted.
prev_iteration_count_short(n, k) == n - k

\* let prev_iteration_count = n - *k + 1  (next, line 100; count, line 153)
prev_iteration_count(n, k) == n - k + 1

\* for _ in 0..times { complete_state.advance(); }
RECURSIVE advance_times(_, _)
advance_times(cs, times) ==
    IF times <= 0 THEN cs
    ELSE advance_times(CompleteState_advance(cs), times - 1)

\* Variant of next_Start: min_n starts one above k.
next_Start_min_n_high(vals, state, n) ==
    [vals |-> vals, state |-> StateBuffered(state.k, state.k + 1), asked |-> 0]

\* Variant of next_Start: the arm leaves the state as it is.
next_Start_stays(vals, state, n) ==
    [vals |-> vals, state |-> state, asked |-> 0]

\* Variant of next_Start: the arm also asks the adapter for an element.
next_Start_pulls(vals, state, n) ==
    LET g == LazyBuffer_get_next(vals, n) IN
    [vals |-> g.vals, state |-> StateBuffered(state.k, state.k),
     asked |-> g.asked]

\* next, arm PermutationState::Start (lines 92-94): [vals, state, asked]
next_Start(vals, state, n) ==
    [vals |-> vals, state |-> StateBuffered(state.k, state.k), asked |-> 0]

\* next, arm PermutationState::Buffered (lines 95-110): [vals, state, asked]
next_Buffered(vals, state, n) ==
    LET g == LazyBuffer_get_next(vals, n) IN
    IF g.got
    THEN [vals |-> g.vals,
          state |-> StateBuffered(state.k, state.min_n + 1),
          asked |-> g.asked]
    ELSE [vals |-> g.vals,
          state |-> StateLoaded(
              advance_times(CompleteStart(state.min_n, state.k),
                  prev_iteration_count(state.min_n, state.k) + 1)),
          asked |-> g.asked]

\* next, arm PermutationState::Loaded (lines 111-113): [vals, state, asked]
next_Loaded(vals, state, n) ==
    [vals |-> vals, state |-> StateLoaded(CompleteState_advance(state.cs)),
     asked |-> 0]

\* next, arm PermutationState::End (line 114): [vals, state, asked]
next_End(vals, state, n) == [vals |-> vals, state |-> state, asked |-> 0]

\* First half of next (lines 89-116): [vals, state, asked]
next_step(vals, state, n) ==
    IF state.tag = "Start" THEN next_Start(vals, state, n)
    ELSE IF state.tag = "Buffered" THEN next_Buffered(vals, state, n)
    ELSE IF state.tag = "Loaded" THEN next_Loaded(vals, state, n)
    ELSE next_End(vals, state, n)

\* Variant of buffered_indices: always the first k cached elements.
buffered_indices_first_k(k, min_n) == Range(0, k)

\* Variant of buffered_indices: the latest element is put first.
buffered_indices_latest_first(k, min_n) == <<min_n - 1>> \o Range(0, k - 1)

\* (0..(*k - 1)).chain(once(latest_idx))
buffered_indices(k, min_n) == Range(0, k - 1) \o <<min_n - 1>>

\* Positions the second half of next reads from vals; panics are reported
\* as [panic |-> TRUE]: the Start arm, an index past the cached elements.
Reads(vals, p) ==
    IF \E j \in 1..Len(p) : p[j] >= vals.len \/ p[j] < 0
    THEN [panic |-> TRUE, ret |-> NoneVec]
    ELSE [panic |-> FALSE, ret |-> Some(p)]

\* Second half of next (lines 117-134): [panic, ret]
next_emit(vals, state) ==
    IF state.tag = "Start"
    THEN [panic |-> TRUE, ret |-> NoneVec]
    ELSE IF state.tag = "Buffered"
    THEN IF state.k < 1 \/ state.min_n < 1
         THEN [panic |-> TRUE, ret |-> NoneVec]
         ELSE Reads(vals, buffered_indices(state.k, state.min_n))
    ELSE IF state.tag = "Loaded" /\ state.cs.tag = "Ongoing"
    THEN IF Len(state.cs.cycles) > Len(state.cs.indices)
         THEN [panic |-> TRUE, ret |-> NoneVec]
         ELSE Reads(vals, SubSeq(state.cs.indices, 1, Len(state.cs.cycles)))
    ELSE [panic |-> FALSE, ret |-> NoneVec]

\* from_complete of count: [panic, val]
from_complete(cs) ==
    LET r == remaining(cs) IN
    IF r.some THEN [panic |-> FALSE, val |-> r.val]
    ELSE [panic |-> TRUE, val |-> 0]

\* Outcomes of the usize subtraction a - b: the difference, or on underflow
\* a panic (overflow checks on) or the wrapped difference (checks off).
usize_sub(a, b) ==
    IF a >= b THEN {[panic |-> FALSE, val |-> a - b]}
    ELSE {[panic |-> TRUE, val |-> 0],
          [panic |-> FALSE, val |-> (a - b) % (UsizeMax + 1)]}

\* Variant of count: the Buffered arm does not subtract what was emitted.
count_prev_ignored(vals, state, n) ==
    IF state.tag \in {"Start", "Buffered"}
    THEN {from_complete(CompleteStart(LazyBuffer_count(vals, n), state.k))}
    ELSE IF state.tag = "Loaded" THEN {from_complete(state.cs)}
    ELSE {[panic |-> FALSE, val |-> 0]}

\* Permutations::count, for a source that ends: the set of outcomes
count(vals, state, n) ==
    IF state.tag = "Start"
    THEN {from_complete(CompleteStart(LazyBuffer_count(vals, n), state.k))}
    ELSE IF state.tag = "Buffered"
    THEN LET c == from_complete(CompleteStart(LazyBuffer_count(vals, n), state.k))
         IN IF c.panic THEN {c}
            ELSE usize_sub(c.val, prev_iteration_count(state.min_n, state.k))
    ELSE IF state.tag = "Loaded" THEN {from_complete(state.cs)}
    ELSE {[panic |-> FALSE, val |-> 0]}

\* Variant of at_start: an overflowing lower bound becomes 0.
at_start_zero(sh, k) ==
    LET low == remaining(CompleteStart(sh.low, k)) IN
    [low |-> IF low.some THEN low.val ELSE 0,
     upp |-> IF sh.upp.some THEN remaining(CompleteStart(sh.upp.val, k))
             ELSE None]

\* The closure at_start of size_hint, on the adapter's size hint sh
at_start(sh, k) ==
    LET low == remaining(CompleteStart(sh.low, k)) IN
    [low |-> IF low.some THEN low.val ELSE UsizeMax,
     upp |-> IF sh.upp.some THEN remaining(CompleteStart(sh.upp.val, k))
             ELSE None]

\* Variant of size_hint: the Buffered arm does not subtract what was emitted.
size_hint_prev_ignored(state, sh) ==
    IF state.tag \in {"Start", "Buffered"} THEN at_start(sh, state.k)
    ELSE IF state.tag = "Loaded"
    THEN LET r == remaining(state.cs) IN
         IF r.some THEN [low |-> r.val, upp |-> Some(r.val)]
         ELSE [low |-> UsizeMax, upp |-> None]
    ELSE [low |-> 0, upp |-> Some(0)]

\* Permutations::size_hint, on the adapter's size hint sh
size_hint(state, sh) ==
    IF state.tag = "Start" THEN at_start(sh, state.k)
    ELSE IF state.tag = "Buffered"
    THEN sub_scalar(at_start(sh, state.k),
                    prev_iteration_count(state.min_n, state.k))
    ELSE IF state.tag = "Loaded"
    THEN LET r == remaining(state.cs) IN
         IF r.some THEN [low |-> r.val, upp |-> Some(r.val)]
         ELSE [low |-> UsizeMax, upp |-> None]
    ELSE [low |-> 0, upp |-> Some(0)]


\* ------------------------------------------------------------ the engine
VARIABLES
    srcLen,     \* length of the source handed to permutations() (or Infinite)
    argK,       \* the k handed to permutations()
    vals,       \* Permutations::vals
    state,      \* Permutations::state
    pc,         \* "live", "consumed" (count took self) or "panicked"
    ret,        \* result of the latest call of next()
    calls,      \* calls of next() up to and including the first None
    noneSeen,   \* a call of next() has returned None
    after,      \* calls of next() after the first None
    outs,       \* the permutations returned before the first None, in order
    asks,       \* requests made to the source so far
    lastAsked,  \* requests made to the source by permutations() or, after
                \* it, by the latest call of next()
    lastFrom,   \* tag of `state` when the latest call of next() began
    lastDone,   \* vals.done when the latest call of next() began
    countRet,   \* outcome of count(): [called, panic, val]
    hintSrc,    \* the adapter's size hint read by the latest size_hint()
    hintRet     \* result of the latest size_hint(): [called, low, upp]

vars == <<srcLen, argK, vals, state, pc, ret, calls, noneSeen, after, outs,
          asks, lastAsked, lastFrom, lastDone, countRet, hintSrc, hintRet>>

NoCount == [called |-> FALSE, panic |-> FALSE, val |-> 0]
NoHint == [called |-> FALSE, low |-> 0, upp |-> None]
NoHintSrc == [low |-> 0, upp |-> None]

\* Cached elements up to which a never-ending source is explored.
Horizon == MaxK + 1

Init ==
    /\ srcLen \in (0..MaxN) \cup {Infinite}
    /\ argK \in 0..MaxK
    /\ vals = permutations(srcLen, argK).vals
    /\ state = permutations(srcLen, argK).state
    /\ asks = permutations(srcLen, argK).asked
    /\ lastAsked = permutations(srcLen, argK).asked
    /\ lastFrom = "new"
    /\ lastDone = FALSE
    /\ pc = "live"
    /\ ret = NoneVec
    /\ calls = 0
    /\ noneSeen = FALSE
    /\ after = 0
    /\ outs = <<>>
    /\ countRet = NoCount
    /\ hintSrc = NoHintSrc
    /\ hintRet = NoHint

\* A call of Permutations::next
Next_call ==
    /\ pc = "live"
    /\ noneSeen => after < MaxAfter
    /\ (srcLen = Infinite /\ state.tag = "Buffered") => vals.len < Horizon
    /\ LET s == next_step(vals, state, srcLen)
           e == next_emit(s.vals, s.state)
       IN /\ vals' = s.vals
          /\ state' = s.state
          /\ asks' = asks + s.asked
          /\ lastAsked' = s.asked
          /\ lastFrom' = state.tag
          /\ lastDone' = vals.done
          /\ pc' = IF e.panic THEN "panicked" ELSE "live"
          /\ ret' = e.ret
          /\ calls' = IF noneSeen THEN calls ELSE calls + 1
          /\ after' = IF noneSeen THEN after + 1 ELSE after
          /\ noneSeen' = (noneSeen \/ (~e.panic /\ ~e.ret.some))
          /\ outs' = IF ~noneSeen /\ ~e.panic /\ e.ret.some
                     THEN Append(outs, e.ret.val) ELSE outs
    /\ hintSrc' = NoHintSrc
    /\ hintRet' = NoHint
    /\ UNCHANGED <<srcLen, argK, countRet>>

\* A call of Permutations::count.  It takes the engine by value: vals and
\* state keep the engine it was called on and no operation follows.  In the
\* Start and Buffered arms it drains the source, which only returns for a
\* source that ends.
Count_call ==
    /\ pc = "live"
    /\ state.tag \in {"Start", "Buffered"} => srcLen # Infinite
    /\ \E c \in count(vals, state, srcLen) :
          countRet' = [called |-> TRUE, panic |-> c.panic, val |-> c.val]
    /\ pc' = "consumed"
    /\ asks' = asks + (IF state.tag \in {"Start", "Buffered"} /\ ~vals.done
                       THEN srcLen - vals.len + 1 ELSE 0)
    /\ UNCHANGED <<srcLen, argK, vals, state, ret, calls, noneSeen, after,
                   outs, lastAsked, lastFrom, lastDone, hintSrc, hintRet>>

\* Size hints a source iterator with `rem` elements left may truthfully give.
SourceHints(rem) ==
    IF rem = Infinite
    THEN {[low |-> l, upp |-> None] : l \in {0, UsizeMax}}
    ELSE {[low |-> l, upp |-> u] :
            l \in 0..rem, u \in {None, Some(rem), Some(UsizeMax)}}

\* A call of Permutations::size_hint
SizeHint_call ==
    /\ pc = "live"
    /\ \E it \in SourceHints(IF srcLen = Infinite THEN Infinite
                             ELSE srcLen - vals.len) :
          /\ hintSrc' = LazyBuffer_size_hint(vals, it)
          /\ hintRet' = [called |-> TRUE,
                         low |-> size_hint(state, hintSrc').low,
                         upp |-> size_hint(state, hintSrc').upp]
    /\ UNCHANGED <<srcLen, argK, vals, state, pc, ret, calls, noneSeen, after,
                   outs, asks, lastAsked, lastFrom, lastDone, countRet>>

Next == Next_call \/ Count_call \/ SizeHint_call

Spec == Init /\ [][Next]_vars


\* ------------------------------------------------------------ properties
\* n * (n-1) * ... * (n-k+1) in unbounded integers; 0 when n < k.
RECURSIVE FallingFactorial(_, _)
FallingFactorial(n, k) ==
    IF k = 0 THEN 1
    ELSE IF n < k THEN 0
    ELSE n * FallingFactorial(n - 1, k - 1)

\* p is a sequence of k pairwise-different positions of a source of n.
IsSelection(p, n, k) ==
    /\ Len(p) = k
    /\ \A i \in 1..k : p[i] \in 0..(n - 1)
    /\ \A i, j \in 1..k : i # j => p[i] # p[j]

SourceEnds == srcLen # Infinite

\* C1: for a finite source of length n and 0 <= k <= n, the calls of next()
\* up to the first None return exactly n!/(n-k)! permutations, each a
\* sequence of k pairwise-different source positions, no two the same.
C1_CountAndDistinct ==
    (SourceEnds /\ argK <= srcLen) =>
        /\ \A j \in 1..Len(outs) : IsSelection(outs[j], srcLen, argK)
        /\ \A i, j \in 1..Len(outs) : i # j => outs[i] # outs[j]
        /\ noneSeen => Len(outs) = FallingFactorial(srcLen, argK)
        /\ pc # "panicked"

C1_Witness ==
    /\ srcLen = MaxN /\ argK = MaxN - 1 /\ noneSeen
    /\ Len(outs) = FallingFactorial(MaxN, MaxN - 1)

\* The k-permutations of the positions 0..n-1.
KPermutations(n, k) == {p \in [1..k -> 0..(n - 1)] : IsSelection(p, n, k)}

\* p comes before q in the lexicographic order of position sequences.
LexLess(p, q) ==
    \E i \in 1..Len(p) : p[i] < q[i] /\ \A j \in 1..(i - 1) : p[j] = q[j]

\* Place of p among the k-permutations of 0..n-1 in lexicographic order.
LexRank(p, n) == Cardinality({q \in KPermutations(n, Len(p)) : LexLess(q, p)}) + 1

Letters == <<"A", "B", "C", "D", "E", "F", "G", "H">>
Elements(p) == [j \in 1..Len(p) |-> Letters[p[j] + 1]]

\* C2: for n >= k >= 1 the j-th call of next() returns the j-th
\* k-permutation of the positions in lexicographic order (the first is the
\* identity), for every j up to n!/(n-k)!, and call n!/(n-k)! + 1 is the
\* first to return None; for [A,B,C,D] and k = 2 the twelve results are
\* AB AC AD BA BC BD CA CB CD DA DB DC.
C2_LexicographicOrder ==
    (SourceEnds /\ argK >= 1 /\ argK <= srcLen) =>
        /\ (calls >= 1 /\ ~noneSeen) =>
              /\ ret.some
              /\ outs[calls] = ret.val
              /\ LexRank(ret.val, srcLen) = calls
        /\ (calls = 1) => ret = Some(Range(0, argK))
        /\ noneSeen => calls = FallingFactorial(srcLen, argK) + 1
        /\ (noneSeen /\ srcLen = 4 /\ argK = 2) =>
              [j \in 1..Len(outs) |-> Elements(outs[j])] =
                 << <<"A", "B">>, <<"A", "C">>, <<"A", "D">>,
                    <<"B", "A">>, <<"B", "C">>, <<"B", "D">>,
                    <<"C", "A">>, <<"C", "B">>, <<"C", "D">>,
                    <<"D", "A">>, <<"D", "B">>, <<"D", "C">> >>

C2_Witness == srcLen = 4 /\ argK = 2 /\ noneSeen /\ calls = 13 /\ Len(outs) = 12

\* C3: once next() has returned None, every later call of next() returns
\* None as well (the engine never goes back from exhaustion to producing).
C3_StaysExhausted == noneSeen => ~ret.some

\* C4: with k = 0 the engine is built as Loaded(Start{n: 0, k: 0}) without
\* a request to the source, the first call of next() returns the empty
\* sequence, the second returns None, and no call pulls from the source,
\* whether the source is empty, finite or never ending.
C4_ZeroK ==
    (argK = 0) =>
        /\ (calls = 0) => state = StateLoaded(CompleteStart(0, 0))
        /\ (calls = 1) => ret = Some(<<>>) /\ ~noneSeen
        /\ (calls = 2 /\ after = 0) => ~ret.some
        /\ calls <= 2
        /\ noneSeen => outs = << <<>> >>
        /\ asks = 0 /\ lastAsked = 0 /\ vals = LazyBuffer_new
        /\ pc # "panicked"

C4_Witness == argK = 0 /\ srcLen = Infinite /\ noneSeen /\ outs = << <<>> >>

\* C5: for a source of length n and k > n the engine is built in the End
\* state, every call of next() returns None and count() returns 0.
C5_TooShort ==
    (SourceEnds /\ argK > srcLen) =>
        /\ state = StateEnd
        /\ outs = <<>>
        /\ (calls > 0) => (noneSeen /\ calls = 1 /\ ~ret.some)
        /\ pc # "panicked"
        /\ countRet.called => (~countRet.panic /\ countRet.val = 0)

C5_Witness ==
    /\ SourceEnds /\ argK > srcLen /\ srcLen >= 1
    /\ after = MaxAfter /\ countRet.called


\* Number of permutations that calls of next() on the engine (vals, state)
\* return before the first call that returns None (or panics).
RECURSIVE Produces(_, _, _)
Produces(v, st, n) ==
    LET s == next_step(v, st, n)
        e == next_emit(s.vals, s.state)
    IN IF e.panic \/ ~e.ret.some THEN 0
       ELSE 1 + Produces(s.vals, s.state, n)

\* C6: whenever count() returns, in the Start, Buffered, Loaded and End
\* states alike, its result is the number of permutations that continued
\* calls of next() on the same engine return before returning None.
C6_CountIsRemaining ==
    (countRet.called /\ ~countRet.panic) =>
        countRet.val = Produces(vals, state, srcLen)

C6_Witness ==
    /\ countRet.called /\ ~countRet.panic
    /\ state.tag = "Buffered" /\ state.min_n > state.k
    /\ countRet.val > 0

\* Result of the j-th advance of the closed stepping algorithm started from
\* Start{n, k} on a source whose n elements are all cached.
ClosedResult(n, k, j) ==
    next_emit([len |-> n, done |-> TRUE],
              StateLoaded(advance_times(CompleteStart(n, k), j)))

\* C7: for n >= k >= 1 every result of next() up to and including the
\* first None equals the result of the closed stepping algorithm run from
\* Start{n, k} on the fully known source, and the first n-k+1 results of
\* the stepping algorithm are 0..k-2 followed by k-1, k, ..., n-1.
C7_SpliceMatchesClosed ==
    (SourceEnds /\ argK >= 1 /\ argK <= srcLen) =>
        /\ (calls >= 1 /\ after = 0) =>
              /\ pc # "panicked"
              /\ ret = ClosedResult(srcLen, argK, calls).ret
        /\ \A j \in 1..(srcLen - argK + 1) :
              ClosedResult(srcLen, argK, j) =
                 [panic |-> FALSE,
                  ret |-> Some(Range(0, argK - 1) \o <<argK - 2 + j>>)]

C7_Witness ==
    /\ SourceEnds /\ argK >= 2 /\ srcLen > argK
    /\ state.tag = "Loaded" /\ state.cs.tag = "Ongoing"
    /\ calls = srcLen - argK + 2 /\ after = 0 /\ ret.some

\* The Option<usize> of an exact count x: Some(x) when it fits, else None.
Checked(x) == IF x <= UsizeMax THEN Some(x) ELSE None

\* Advances of the Ongoing closed state cs that yield a permutation before
\* the one that wraps to Start, counted up to `limit`.
RECURSIVE ClosedProduces(_, _)
ClosedProduces(cs, limit) ==
    IF limit = 0 THEN 0
    ELSE LET c == CompleteState_advance(cs) IN
         IF c.tag = "Start" THEN 0 ELSE 1 + ClosedProduces(c, limit - 1)

\* C8: remaining() on a closed state returns Some of the exact count when
\* that count is at most usize::MAX and None otherwise: for Start{n, k}
\* (the engine's k; n any usize, n = 0 when k = 0) the count n!/(n-k)!, for
\* every reachable Ongoing state the number of permutations still to come
\* (counted as far as usize::MAX + 1, which decides whether it fits).
C8_RemainingChecked ==
    /\ \A n \in 0..UsizeMax :
          (argK >= 1 \/ n = 0) =>
             remaining(CompleteStart(n, argK)) = Checked(FallingFactorial(n, argK))
    /\ (state.tag = "Loaded" /\ state.cs.tag = "Ongoing") =>
          remaining(state.cs) = Checked(ClosedProduces(state.cs, UsizeMax + 1))
    /\ (state.tag = "Loaded" /\ state.cs.tag = "Start") =>
          remaining(state.cs) = Checked(FallingFactorial(state.cs.n, state.cs.k))

C8_Witness ==
    /\ state.tag = "Loaded" /\ state.cs.tag = "Ongoing"
    /\ ClosedProduces(state.cs, UsizeMax + 1) = UsizeMax + 1
    /\ ~remaining(state.cs).some

\* C9: permutations() makes at most k requests to the source (none when
\* k = 0); a call of next() makes at most one, and only from the Buffered
\* state; after the source has reported its end no call of next() asks it.
C9_Lazy ==
    /\ (lastFrom = "new") =>
          /\ lastAsked <= argK /\ vals.len <= argK
          /\ (pc = "live") => asks = lastAsked
    /\ (lastFrom # "new") =>
          /\ lastAsked <= 1
          /\ (lastAsked = 1) => lastFrom = "Buffered"
          /\ lastDone => (lastAsked = 0 /\ vals.done)
    /\ vals.len <= asks

C9_Witness ==
    /\ lastFrom = "Loaded" /\ lastDone /\ ret.some /\ argK >= 2
    /\ asks = srcLen + 1

\* C10 (as claimed): in the Start and Buffered states, when the falling
\* factorial of the lower length bound overflows, size_hint() reports
\* usize::MAX as lower bound; an unknown upper length bound gives None.
C10_SaturatesToMax ==
    (hintRet.called /\ state.tag \in {"Start", "Buffered"}) =>
        /\ (FallingFactorial(hintSrc.low, state.k) > UsizeMax) =>
              hintRet.low = UsizeMax
        /\ ~hintSrc.upp.some => ~hintRet.upp.some

\* C10 (amended): in the Start state an overflowing lower bound is reported
\* as usize::MAX; in the Buffered state it is reported as usize::MAX minus
\* the min_n - k + 1 permutations already returned, a subtraction that does
\* not underflow; an unknown upper length bound gives None.
C10_SaturatesThenSubtracts ==
    (hintRet.called /\ state.tag \in {"Start", "Buffered"}) =>
        /\ (FallingFactorial(hintSrc.low, state.k) > UsizeMax) =>
              /\ (state.tag = "Start") => hintRet.low = UsizeMax
              /\ (state.tag = "Buffered") =>
                    /\ state.min_n >= state.k
                    /\ state.min_n - state.k + 1 <= UsizeMax
                    /\ hintRet.low = UsizeMax - (state.min_n - state.k + 1)
        /\ ~hintSrc.upp.some => ~hintRet.upp.some

C10_Witness ==
    /\ hintRet.called /\ state.tag = "Buffered" /\ SourceEnds
    /\ FallingFactorial(hintSrc.low, state.k) > UsizeMax
    /\ hintRet.low = UsizeMax - 2
    /\ ~hintSrc.upp.some

\* The invariant of an Ongoing closed state for a source of n and size k:
\* indices is a bijection on 0..n-1, cycles has length k and cycles[i] lies
\* in 0..n-1-i.
OngoingInvariant(cs, n, k) ==
    /\ Len(cs.indices) = n
    /\ {cs.indices[j] : j \in 1..n} = 0..(n - 1)
    /\ Len(cs.cycles) = k
    /\ \A i \in 0..(k - 1) : cs.cycles[i + 1] \in 0..(n - 1 - i)

\* The n of the closed states of this engine: 0 when k = 0, else the length
\* of the source.
ClosedN == IF argK = 0 THEN 0 ELSE srcLen

\* C11: every reachable Ongoing state has indices a bijection on 0..n-1 of
\* length n, cycles of length k and cycles[i] in [0, n-1-i]; one more step
\* of the stepping algorithm from it, and every step of the advancing done
\* inside the splice, yields Start or an Ongoing state with the same
\* property.
C11_OngoingInvariant ==
    /\ (state.tag = "Loaded" /\ state.cs.tag = "Ongoing") =>
          /\ OngoingInvariant(state.cs, ClosedN, argK)
          /\ LET c == CompleteState_advance(state.cs) IN
                IF c.tag = "Start" THEN c = CompleteStart(ClosedN, argK)
                ELSE OngoingInvariant(c, ClosedN, argK)
    /\ (state.tag = "Buffered" /\ SourceEnds) =>
          \A j \in 1..(prev_iteration_count(srcLen, argK) + 1) :
             LET c == advance_times(CompleteStart(srcLen, argK), j) IN
                IF c.tag = "Start" THEN c = CompleteStart(srcLen, argK)
                ELSE OngoingInvariant(c, srcLen, argK)

C11_Witness ==
    /\ state.tag = "Loaded" /\ state.cs.tag = "Ongoing"
    /\ srcLen = MaxN /\ argK = 3
    /\ state.cs.cycles = <<0, 0, 0>>

\* C12 (as claimed): the first call of next() takes Start{k} to
\* Buffered{k, min_n: k} and returns no permutation; the first permutation
\* is returned by the call after it.
C12_FirstCallOnlyArms ==
    (lastFrom = "Start") => (state = StateBuffered(argK, argK) /\ ~ret.some)

\* C12 (amended): the first call of next() takes Start{k} to
\* Buffered{k, min_n: k} whatever the source holds beyond its first k
\* elements, without a request to the source, and that same call returns
\* the first permutation: the first k cached elements in their order.
C12_FirstCallArmsAndEmits ==
    /\ (state.tag = "Start") =>
          /\ calls = 0 /\ state = StateStart(argK)
          /\ next_step(vals, state, srcLen).state = StateBuffered(argK, argK)
    /\ (lastFrom = "Start") =>
          /\ calls = 1
          /\ state = StateBuffered(argK, argK)
          /\ lastAsked = 0 /\ vals.len = argK
          /\ ret = Some(Range(0, argK))
          /\ outs = <<Range(0, argK)>>

C12_Witness ==
    /\ lastFrom = "Start" /\ state = StateBuffered(3, 3)
    /\ ret = Some(<<0, 1, 2>>) /\ srcLen = Infinite

\* C13: a call of next() in the Buffered state that obtains one more
\* element raises min_n by exactly one and returns the positions
\* 0, 1, ..., k-2 followed by min_n - 1, the position of the element just
\* cached; no step lowers min_n.
C13_DiscoveryStep ==
    [][ (state.tag = "Buffered" /\ state'.tag = "Buffered") =>
          /\ state'.min_n >= state.min_n
          /\ state'.k = state.k
          /\ (calls' # calls) =>
                /\ vals'.len = vals.len + 1
                /\ state'.min_n = state.min_n + 1
                /\ ret' = Some(Range(0, state.k - 1) \o <<state'.min_n - 1>>)
                /\ ret'.val[state.k] = vals.len
                /\ pc' = "live" ]_vars

C13_Witness ==
    /\ lastFrom = "Buffered" /\ state = StateBuffered(3, 5)
    /\ ret = Some(<<0, 1, 4>>) /\ lastAsked = 1

\* C14: the call of next() that finds the source exhausted in
\* Buffered{k, min_n: n} leaves the closed state that n - k + 2 advances
\* from Start{n, k} give; none of the first n - k + 1 of them wraps; when
\* more than n - k + 1 permutations exist the call returns the permutation
\* of rank n - k + 2, which was not returned before; exactly when k = 1
\* only n - k + 1 exist, and then the last advance lands on Start{n, k}
\* and the call returns None.
C14_SpliceLandsOnNext ==
    (lastFrom = "Buffered" /\ state.tag = "Loaded") =>
        LET n == srcLen
            k == argK
            prior == n - k + 1
        IN /\ SourceEnds /\ k >= 1 /\ n >= k
           /\ vals = [len |-> n, done |-> TRUE]
           /\ calls = prior + 1
           /\ \A j \in 1..prior :
                 /\ advance_times(CompleteStart(n, k), j).tag = "Ongoing"
                 /\ outs[j] = SubSeq(advance_times(CompleteStart(n, k), j).indices, 1, k)
           /\ state.cs = CompleteState_advance(advance_times(CompleteStart(n, k), prior))
           /\ (FallingFactorial(n, k) = prior) <=> (k = 1)
           /\ (k = 1) => (state.cs = CompleteStart(n, k) /\ ~ret.some /\ Len(outs) = prior)
           /\ (k > 1) =>
                 /\ state.cs.tag = "Ongoing"
                 /\ ret = Some(SubSeq(state.cs.indices, 1, k))
                 /\ LexRank(ret.val, n) = prior + 1
                 /\ Len(outs) = prior + 1
                 /\ \A j \in 1..prior : outs[j] # ret.val

C14_Witness ==
    /\ lastFrom = "Buffered" /\ state.tag = "Loaded" /\ state.cs.tag = "Ongoing"
    /\ srcLen = 4 /\ argK = 2 /\ ret = Some(<<1, 0>>) /\ ~hintRet.called

\* C15: count() called in Buffered{k, min_n} on a source of n elements
\* drains the source and, when n!/(n-k)! fits in usize, returns
\* n!/(n-k)! - (min_n - k + 1), a subtraction that does not underflow (when
\* it does not fit, from_complete panics).
C15_CountWhileDiscovering ==
    (countRet.called /\ state.tag = "Buffered") =>
        LET total == FallingFactorial(srcLen, state.k)
            prior == state.min_n - state.k + 1
        IN /\ SourceEnds
           /\ srcLen >= state.min_n /\ state.min_n >= state.k /\ state.k >= 1
           /\ asks = srcLen + 1
           /\ total >= prior
           /\ countRet.panic <=> (total > UsizeMax)
           /\ ~countRet.panic => countRet.val = total - prior

C15_Witness ==
    /\ countRet.called /\ ~countRet.panic /\ state = StateBuffered(2, 3)
    /\ srcLen = 4 /\ countRet.val = 10

\* C16: once the latest call of next() has returned None, nothing remains:
\* count() returns 0 and size_hint() returns (0, Some(0)).
C16_NothingRemains ==
    (noneSeen /\ ~ret.some /\ pc # "panicked") =>
        /\ countRet.called => (~countRet.panic /\ countRet.val = 0)
        /\ hintRet.called => (hintRet.low = 0 /\ hintRet.upp = Some(0))

\* C17: the panic of next()'s second match is unreachable: the first half
\* of next() never leaves the engine in PermutationState::Start, from any
\* reachable state and after any sequence of next() and size_hint() calls;
\* Start is only the state of an engine on which next() was never called.
C17_NeverStartAfterStep ==
    /\ (pc = "live") => next_step(vals, state, srcLen).state.tag # "Start"
    /\ (lastFrom # "new") => state.tag # "Start"
    /\ (state.tag = "Start") => calls = 0
    /\ pc # "panicked"

C17_Witness ==
    /\ calls >= 3 /\ hintRet.called /\ pc = "live"
    /\ state.tag \in {"Buffered", "Loaded"} /\ lastFrom = "Buffered"

\* C18: in every reachable Buffered state k >= 1 and min_n is the number of
\* cached elements; in every reachable Ongoing state with k >= 1 the length
\* n of indices is that number; so every position next() reads from vals
\* (0..k-2 and min_n - 1, or indices[0..k-1]) is below the cached length.
C18_ReadsWithinCache ==
    /\ (state.tag = "Buffered") =>
          /\ state.k >= 1 /\ state.k = argK
          /\ state.min_n = vals.len
          /\ \A j \in 1..state.k :
                buffered_indices(state.k, state.min_n)[j] \in 0..(vals.len - 1)
    /\ (state.tag = "Loaded" /\ state.cs.tag = "Ongoing" /\ argK >= 1) =>
          /\ Len(state.cs.indices) = vals.len
          /\ vals.done
          /\ \A j \in 1..Len(state.cs.cycles) :
                state.cs.indices[j] \in 0..(vals.len - 1)
    /\ (lastFrom # "new" /\ ret.some) =>
          \A j \in 1..Len(ret.val) : ret.val[j] \in 0..(vals.len - 1)
    /\ pc # "panicked"

C18_Witness ==
    /\ state.tag = "Loaded" /\ state.cs.tag = "Ongoing"
    /\ vals = [len |-> 3, done |-> TRUE] /\ argK = 3
    /\ ret = Some(<<2, 1, 0>>)

\* Number of permutations that calls of next() on the engine (v, st) return
\* before the first call that returns None, counted up to `limit`.
RECURSIVE ProducesUpTo(_, _, _, _)
ProducesUpTo(v, st, n, limit) ==
    IF limit = 0 THEN 0
    ELSE LET s == next_step(v, st, n)
             e == next_emit(s.vals, s.state)
         IN IF e.panic \/ ~e.ret.some THEN 0
            ELSE 1 + ProducesUpTo(s.vals, s.state, n, limit - 1)

\* C19: with truthful length bounds from the source, the lower bound of
\* size_hint() is at most the number of permutations next() still returns
\* before it returns None, and its upper bound, when present, is at least
\* that number (the number is counted as far as usize::MAX + 1, above
\* every bound a usize can state; a source that never ends with k >= 1
\* gives no upper bound).
C19_SizeHintBrackets ==
    hintRet.called =>
        LET truth == ProducesUpTo(vals, state, srcLen, UsizeMax + 1) IN
        /\ hintRet.low <= truth
        /\ hintRet.upp.some => hintRet.upp.val >= truth
        /\ hintRet.low <= UsizeMax
        /\ hintRet.upp.some => hintRet.low <= hintRet.upp.val

C19_Witness ==
    /\ hintRet.called /\ state = StateBuffered(2, 3) /\ srcLen = 4
    /\ hintRet.low = 4 /\ hintRet.upp = Some(10)

====
